---- MODULE Spec2Model ----
(***************************************************************************)
(* State-machine model of src/custom_logger.py (class CustomLogger) on top *)
(* of the host logging runtime: the process-wide logger registry, the      *)
(* handlers attached to each logger, the log files and the console stream. *)
(* Strings are sequences of one-character strings so that str.upper and    *)
(* os.path.join are computed character by character.                       *)
(***************************************************************************)
EXTENDS Integers, Sequences, FiniteSets, TLC

VARIABLES loggerDict, files, console, last

vars == <<loggerDict, files, console, last>>

(* ------------------------------ bounds -------------------------------- *)
MaxHandlers == 2
MaxLines == 2

(* ------------------------- logging level constants -------------------- *)
TRACE == 5
DEBUG == 10
INFO == 20
WARNING == 30
ERROR == 40
CRITICAL == 50

Severities == {TRACE, DEBUG, INFO, WARNING, ERROR, CRITICAL}

(* ------------------------------ strings ------------------------------- *)
LowerAlpha == <<"a","b","c","d","e","f","g","h","i","j","k","l","m",
                "n","o","p","q","r","s","t","u","v","w","x","y","z">>
UpperAlpha == <<"A","B","C","D","E","F","G","H","I","J","K","L","M",
                "N","O","P","Q","R","S","T","U","V","W","X","Y","Z">>

UpperChar(c) ==
    IF \E i \in 1..26 : LowerAlpha[i] = c
    THEN UpperAlpha[CHOOSE i \in 1..26 : LowerAlpha[i] = c]
    ELSE c

LowerChar(c) ==
    IF \E i \in 1..26 : UpperAlpha[i] = c
    THEN LowerAlpha[CHOOSE i \in 1..26 : UpperAlpha[i] = c]
    ELSE c

\* str.upper()
upper(s) == [i \in 1..Len(s) |-> UpperChar(s[i])]

sDEBUG == <<"D","E","B","U","G">>
sINFO == <<"I","N","F","O">>
sWARNING == <<"W","A","R","N","I","N","G">>
sERROR == <<"E","R","R","O","R">>
sCRITICAL == <<"C","R","I","T","I","C","A","L">>

\* the dict `levels` of _get_log_level, as a set of <<key, value>> pairs
levels == { <<sDEBUG, DEBUG>>, <<sINFO, INFO>>, <<sWARNING, WARNING>>,
            <<sERROR, ERROR>>, <<sCRITICAL, CRITICAL>> }

get_log_level_no_upper(log_level) ==
    IF \E kv \in levels : kv[1] = log_level
    THEN (CHOOSE kv \in levels : kv[1] = log_level)[2]
    ELSE DEBUG

\* levels.get(log_level.upper(), logging.DEBUG)
get_log_level(log_level) ==
    LET key == upper(log_level) IN
    IF \E kv \in levels : kv[1] = key
    THEN (CHOOSE kv \in levels : kv[1] = key)[2]
    ELSE DEBUG

(* ------------------------------- paths -------------------------------- *)
Sep == "/"
LogSuffix == <<"_","l","o","g","g","e","r",".","l","o","g">>

os_path_join_always_sep(a, b) == a \o <<Sep>> \o b

\* posixpath.join(a, b)
os_path_join(a, b) ==
    IF Len(b) > 0 /\ b[1] = Sep THEN b
    ELSE IF Len(a) = 0 \/ a[Len(a)] = Sep THEN a \o b
    ELSE a \o <<Sep>> \o b

\* file_name = f"{self.log_file_name}_logger.log"; os.path.join(dir, file_name)
file_path(log_dir_path, log_file_name) ==
    os_path_join(log_dir_path, log_file_name \o LogSuffix)

\* index of the last separator of a path, 0 when there is none
RECURSIVE LastSepFrom(_, _)
LastSepFrom(p, i) ==
    IF i = 0 THEN 0 ELSE IF p[i] = Sep THEN i ELSE LastSepFrom(p, i - 1)

LastSep(p) == LastSepFrom(p, Len(p))

\* the directory a path lies in (posixpath.dirname on the paths of the model)
DirName(p) ==
    LET i == LastSep(p) IN
    IF i <= 1 THEN SubSeq(p, 1, i) ELSE SubSeq(p, 1, i - 1)

(* --------------------------- the file system -------------------------- *)
dCwd == <<>>
dRoot == <<"/">>
dLogs == <<"d">>
dLogsSlash == <<"d","/">>
dMissing == <<"m">>
dReadOnly == <<"r">>

FileNotFoundError == "FileNotFoundError"
PermissionError == "PermissionError"
FsErrors == {FileNotFoundError, PermissionError}

\* outcome of open(path, 'a+') for a file that lies in directory d
OpenOutcome(path) ==
    LET d == DirName(path) IN
    IF d \in {dCwd, dRoot, dLogs} THEN "ok"
    ELSE IF d = dReadOnly THEN PermissionError
    ELSE FileNotFoundError

(* ------------------------- the logging runtime ------------------------ *)
NOTSET == 0
ConfigurationError == "Exception: Assign logger name."

NoLast == [op |-> "none", name |-> <<>>, dir |-> <<>>, base |-> <<>>,
           fl |-> <<>>, sl |-> <<>>, fh |-> FALSE, sh |-> FALSE,
           outcome |-> "none", sev |-> 0, msg |-> <<>>, n |-> 0]

\* logging.getLogger(name): the registry with a logger registered under name
getLogger(dict, name) ==
    IF name \in DOMAIN dict THEN dict
    ELSE [k \in DOMAIN dict \cup {name} |->
            IF k = name THEN [level |-> NOTSET, handlers |-> <<>>] ELSE dict[k]]

\* Logger.setLevel
setLevel(dict, name, lvl) == [dict EXCEPT ![name].level = lvl]

addHandler_replace(dict, name, h) ==
    [dict EXCEPT ![name].handlers = <<h>>]

\* Logger.addHandler with a freshly constructed handler
addHandler(dict, name, h) ==
    [dict EXCEPT ![name].handlers = Append(@, h)]

open_truncate(fs, path) ==
    [k \in DOMAIN fs \cup {path} |-> IF k = path THEN <<>> ELSE fs[k]]

\* open(path, mode='a+'): creates a missing file, keeps an existing one
open_append(fs, path) ==
    IF path \in DOMAIN fs THEN fs
    ELSE [k \in DOMAIN fs \cup {path} |-> IF k = path THEN <<>> ELSE fs[k]]

\* logging.FileHandler(file_path, mode='a+') followed by setLevel
FileHandler(path, log_level) ==
    [kind |-> "file", level |-> get_log_level(log_level), path |-> path]

\* logging.StreamHandler() followed by setLevel
StreamHandler(log_level) ==
    [kind |-> "stream", level |-> get_log_level(log_level), path |-> <<>>]

InitLevelWarning == WARNING

\* the level CustomLogger.__init__ sets on the logger
InitLevel == DEBUG

create_file_handler_swallow(dict, fs, name, dir, base, log_level) ==
    LET path == file_path(dir, base) IN
    IF OpenOutcome(path) # "ok"
    THEN [dict |-> dict, fs |-> fs, outcome |-> "ok"]
    ELSE [dict |-> addHandler(dict, name, FileHandler(path, log_level)),
          fs |-> open_append(fs, path), outcome |-> "ok"]

\* _create_file_handler: result of the file step on (dict, fs)
create_file_handler(dict, fs, name, dir, base, log_level) ==
    LET path == file_path(dir, base)
        opened == OpenOutcome(path)
    IN
    IF opened # "ok"
    THEN [dict |-> dict, fs |-> fs, outcome |-> opened]
    ELSE [dict |-> addHandler(dict, name, FileHandler(path, log_level)),
          fs |-> open_append(fs, path), outcome |-> "ok"]

create_stream_handler_noop(dict, name, log_level) == dict

\* _create_stream_handler
create_stream_handler(dict, name, log_level) ==
    addHandler(dict, name, StreamHandler(log_level))

init_result_stream_first(dict, fs, log_file_name, log_dir_path, logger_name, file_log_level, stream_log_level, file_handler, stream_handler) ==
    IF logger_name = <<>>
    THEN [dict |-> dict, fs |-> fs, outcome |-> ConfigurationError]
    ELSE
      LET d1 == setLevel(getLogger(dict, logger_name), logger_name, InitLevel)
          d2 == IF stream_handler
                THEN create_stream_handler(d1, logger_name, stream_log_level)
                ELSE d1
      IN IF file_handler
         THEN create_file_handler(d2, fs, logger_name, log_dir_path,
                                  log_file_name, file_log_level)
         ELSE [dict |-> d2, fs |-> fs, outcome |-> "ok"]

\* CustomLogger.__init__ as a function of the state and the arguments
init_result(dict, fs, log_file_name, log_dir_path, logger_name, file_log_level, stream_log_level, file_handler, stream_handler) ==
    IF logger_name = <<>>
    THEN [dict |-> dict, fs |-> fs, outcome |-> ConfigurationError]
    ELSE
      LET d1 == setLevel(getLogger(dict, logger_name), logger_name, InitLevel)
          r2 == IF file_handler
                THEN create_file_handler(d1, fs, logger_name, log_dir_path,
                                         log_file_name, file_log_level)
                ELSE [dict |-> d1, fs |-> fs, outcome |-> "ok"]
      IN IF r2.outcome # "ok" THEN r2
         ELSE IF stream_handler
              THEN [r2 EXCEPT !.dict = create_stream_handler(r2.dict, logger_name,
                                                             stream_log_level)]
              ELSE r2

Requested(file_handler, stream_handler) ==
    (IF file_handler THEN 1 ELSE 0) + (IF stream_handler THEN 1 ELSE 0)

\* createLogger: one construction CustomLogger(...)
CreateLogger(log_file_name, log_dir_path, logger_name, file_log_level, stream_log_level, file_handler, stream_handler) ==
    /\ LET r == init_result(loggerDict, files, log_file_name, log_dir_path,
                            logger_name, file_log_level, stream_log_level,
                            file_handler, stream_handler)
       IN /\ loggerDict' = r.dict
          /\ files' = r.fs
          /\ last' = [NoLast EXCEPT !.op = "createLogger", !.name = logger_name,
                        !.dir = log_dir_path, !.base = log_file_name,
                        !.fl = file_log_level, !.sl = stream_log_level,
                        !.fh = file_handler, !.sh = stream_handler,
                        !.outcome = r.outcome]
    /\ UNCHANGED console

(* ------------------------------ emission ------------------------------ *)
\* Logger.getEffectiveLevel: a NOTSET logger inherits the root's WARNING
getEffectiveLevel(dict, name) ==
    IF dict[name].level = NOTSET THEN WARNING ELSE dict[name].level

\* Logger.isEnabledFor
isEnabledFor(dict, name, sev) == sev >= getEffectiveLevel(dict, name)

\* Logger.callHandlers: record.levelno >= hdlr.level
admits(h, sev) == sev >= h.level

RECURSIVE Repeat(_, _)
Repeat(x, k) == IF k = 0 THEN <<>> ELSE <<x>> \o Repeat(x, k - 1)

RECURSIVE CountIf(_, _, _, _)
\* number of handlers of hs of the given kind and path that admit sev
CountIf(hs, kind, path, sev) ==
    IF hs = <<>> THEN 0
    ELSE (IF Head(hs).kind = kind /\ Head(hs).path = path /\ admits(Head(hs), sev)
          THEN 1 ELSE 0) + CountIf(Tail(hs), kind, path, sev)

\* lines each target receives when the record is handled
Deliveries(dict, name, sev, kind, path) ==
    IF isEnabledFor(dict, name, sev)
    THEN CountIf(dict[name].handlers, kind, path, sev)
    ELSE 0

RECURSIVE SumLen(_, _)
SumLen(fs, ps) ==
    IF ps = {} THEN 0
    ELSE LET p == CHOOSE q \in ps : TRUE
         IN Len(fs[p]) + SumLen(fs, ps \ {p})

\* number of lines in all log files
TotalLines(fs) == SumLen(fs, DOMAIN fs)

Line(name, sev, msg) == [name |-> name, levelno |-> sev, message |-> msg]

\* logger.log(sev, msg) on the handle registered under name
Log(name, sev, msg, op, n) ==
    /\ name \in DOMAIN loggerDict
    /\ files' = [p \in DOMAIN files |->
                   files[p] \o Repeat(Line(name, sev, msg),
                                      Deliveries(loggerDict, name, sev, "file", p))]
    /\ console' = console \o Repeat(Line(name, sev, msg),
                                    Deliveries(loggerDict, name, sev, "stream", <<>>))
    /\ TotalLines(files') + Len(console') <= MaxLines
    /\ last' = [NoLast EXCEPT !.op = op, !.name = name, !.sev = sev,
                              !.msg = msg, !.n = n, !.outcome = "ok"]
    /\ UNCHANGED loggerDict

PlainMessage == <<>>

Emit(name, sev) == Log(name, sev, PlainMessage, "emit", 0)

(* ----------------------- tabular diagnostic helper -------------------- *)
PreviewRows == 5
Min(a, b) == IF a <= b THEN a ELSE b
Table(n) == [i \in 1..n |-> i]

head_all(table) == table

\* the preview of the tabular library: the first PreviewRows rows
head(table) == SubSeq(table, 1, Min(PreviewRows, Len(table)))

LogTablePreview(name, n) ==
    Log(name, DEBUG, head(Table(n)), "logTablePreview", n)

(* --------------------------- specifications --------------------------- *)
nEmpty == <<>>
nBlank == <<" ">>
nA == <<"a">>
bX == <<"x">>
bY == <<"y">>
bAbs == <<"/","x">>
sInfoLower == <<"i","n","f","o">>
sVERBOSE == <<"V","E","R","B","O","S","E">>

Init ==
    /\ loggerDict = <<>>
    /\ files = <<>>
    /\ console = <<>>
    /\ last = NoLast

\* the number of handlers attached to all loggers
RECURSIVE SumHandlers(_, _)
SumHandlers(dict, ns) ==
    IF ns = {} THEN 0
    ELSE LET k == CHOOSE q \in ns : TRUE
         IN Len(dict[k].handlers) + SumHandlers(dict, ns \ {k})

\* attaching the requested handlers keeps their number within MaxHandlers
WithinBound(fh, sh) ==
    SumHandlers(loggerDict, DOMAIN loggerDict) + Requested(fh, sh) <= MaxHandlers

(* Spec: construction with every combination of options *)
Names == {nEmpty, nBlank, nA}
Dirs == {dLogs, dMissing}
LevelStrings == {sInfoLower, sVERBOSE}

DoCreate ==
    \E name \in Names, dir \in Dirs,
       fl \in LevelStrings, sl \in LevelStrings, fh \in BOOLEAN, sh \in BOOLEAN :
        /\ CreateLogger(bX, dir, name, fl, sl, fh, sh)
        /\ WithinBound(fh, sh) \/ last'.outcome # "ok"

Next == DoCreate

Spec == Init /\ [][Next]_vars

(* SpecEmit: loggers with both kinds of sink, and records emitted on them *)
EmitNames == {nA}
EmitLevelStrings == {sInfoLower, sVERBOSE}

DoCreateEmit ==
    \E name \in EmitNames, fl \in EmitLevelStrings, sl \in EmitLevelStrings,
       fh \in BOOLEAN, sh \in BOOLEAN :
        WithinBound(fh, sh) /\ CreateLogger(bX, dLogs, name, fl, sl, fh, sh)

DoEmit == \E name \in EmitNames, sev \in Severities : Emit(name, sev)

NextEmit == DoCreateEmit \/ DoEmit

SpecEmit == Init /\ [][NextEmit]_vars

(* SpecPaths: the file sink over directories and base names *)
PathDirs == {dCwd, dLogs, dLogsSlash, dMissing, dReadOnly}
PathBases == {bX, bY, bAbs}

DoCreatePaths ==
    \E dir \in PathDirs, base \in PathBases, fh \in BOOLEAN, sh \in BOOLEAN :
        WithinBound(fh, sh) /\ CreateLogger(base, dir, nA, sVERBOSE, sVERBOSE, fh, sh)

NextPaths == DoCreatePaths

SpecPaths == Init /\ [][NextPaths]_vars

(* SpecLevels: one sink per construction, over severity strings *)
\* every letter-case variant of a word
CaseVariants(w) ==
    { [i \in 1..Len(w) |-> IF i \in L THEN LowerChar(w[i]) ELSE w[i]] :
        L \in SUBSET (1..Len(w)) }

sTRACE == <<"T","R","A","C","E">>
sWARN == <<"W","A","R","N">>
sNOTSET == <<"N","O","T","S","E","T">>
sInfoPadded == <<" ","I","N","F","O">>
sDebugLower == <<"d","e","b","u","g">>
sWarningCap == <<"W","a","r","n","i","n","g">>
sCriticalLower == <<"c","r","i","t","i","c","a","l">>
sErrorCap == <<"E","r","r","o","r">>
Unrecognized == {sVERBOSE, sTRACE, sWARN, sNOTSET, sInfoPadded, <<>>}

AllLevelStrings ==
    CaseVariants(sINFO) \cup CaseVariants(sERROR)
      \cup {sDEBUG, sDebugLower, sWARNING, sWarningCap, sERROR, sErrorCap,
            sCRITICAL, sCriticalLower}
      \cup Unrecognized

DoCreateLevels ==
    \E lvl \in AllLevelStrings, fh \in BOOLEAN :
        WithinBound(fh, ~fh) /\ CreateLogger(bX, dLogs, nA, lvl, lvl, fh, ~fh)

NextLevels == DoCreateLevels

SpecLevels == Init /\ [][NextLevels]_vars

(* SpecPreview: table previews logged on a handle *)
TableSizes == {0, 2, 5, 20}

DoCreatePreview ==
    \E sl \in EmitLevelStrings, fh \in BOOLEAN, sh \in BOOLEAN :
        WithinBound(fh, sh) /\ CreateLogger(bX, dLogs, nA, sVERBOSE, sl, fh, sh)

DoPreview == \E n \in TableSizes : LogTablePreview(nA, n)

NextPreview == DoCreatePreview \/ DoPreview

SpecPreview == Init /\ [][NextPreview]_vars

(* ------------------------------ properties ---------------------------- *)
IsCreate(l) == l.op = "createLogger"

\* handlers of the logger registered under name, none when unregistered
HandlersOf(dict, name) ==
    IF name \in DOMAIN dict THEN dict[name].handlers ELSE <<>>

IsPrefix(a, b) == Len(a) <= Len(b) /\ SubSeq(b, 1, Len(a)) = a

EqIgnoreCase(a, b) ==
    Len(a) = Len(b) /\ \A i \in 1..Len(a) : LowerChar(a[i]) = LowerChar(b[i])

\* the severity a threshold string asks for: the level it names in any letter
\* case, DEBUG when it names none
RequestedLevel(str) ==
    IF \E kv \in levels : EqIgnoreCase(str, kv[1])
    THEN (CHOOSE kv \in levels : EqIgnoreCase(str, kv[1]))[2]
    ELSE DEBUG

CanOpen(dir, base) == OpenOutcome(file_path(dir, base)) = "ok"

\* the sinks a call asks for, file sink first
ExpectedSinks(l) ==
    (IF l.fh THEN <<[kind |-> "file", level |-> RequestedLevel(l.fl),
                     path |-> file_path(l.dir, l.base)]>> ELSE <<>>)
    \o (IF l.sh THEN <<[kind |-> "stream", level |-> RequestedLevel(l.sl),
                        path |-> <<>>]>> ELSE <<>>)

HasKind(hs, kind) == \E i \in 1..Len(hs) : hs[i].kind = kind

\* C1 (as stated): every construction with a non-empty name succeeds, and the
\* handle then has a file sink iff one was requested, a console sink iff one
\* was requested, each with the requested threshold.
C1_Original ==
    (IsCreate(last) /\ last.name # <<>>) =>
        /\ last.outcome = "ok"
        /\ LET hs == HandlersOf(loggerDict, last.name) IN
             /\ HasKind(hs, "file") <=> last.fh
             /\ HasKind(hs, "stream") <=> last.sh
             /\ \A i \in 1..Len(hs) :
                  hs[i].level = RequestedLevel(IF hs[i].kind = "file"
                                               THEN last.fl ELSE last.sl)

\* C1 (amended): a construction with a non-empty name whose file sink is
\* disabled or whose log file can be opened succeeds, and the sinks it attaches
\* after those the handle already had are exactly the requested ones with the
\* requested thresholds.
C1_SinksMatchOptions ==
    [][ (IsCreate(last') /\ last'.name # <<>>
           /\ (~last'.fh \/ CanOpen(last'.dir, last'.base))) =>
          /\ last'.outcome = "ok"
          /\ HandlersOf(loggerDict', last'.name)
               = HandlersOf(loggerDict, last'.name) \o ExpectedSinks(last')
      ]_vars

C1_Witness ==
    /\ IsCreate(last) /\ last.name # <<>> /\ last.fh /\ last.sh
    /\ last.outcome = "ok"
    /\ last.fl # last.sl
    /\ HandlersOf(loggerDict, last.name) = ExpectedSinks(last)

Whitespace == {" "}
IsBlank(str) == \A i \in 1..Len(str) : str[i] \in Whitespace

\* C2: a construction with an empty or whitespace-only name fails with the
\* configuration error and attaches nothing.
C2_BlankNameRejected ==
    (IsCreate(last) /\ IsBlank(last.name)) =>
        /\ last.outcome = ConfigurationError
        /\ last.name \notin DOMAIN loggerDict

\* number of sinks of the given kind and path among hs whose threshold is at
\* most sev
Admitting(hs, kind, path, sev) ==
    Cardinality({i \in 1..Len(hs) :
                   hs[i].kind = kind /\ hs[i].path = path /\ hs[i].level <= sev})

\* C3: a record emitted at severity S is written to a sink of the handle iff
\* S >= the sink's threshold: each file and the console receive one line per
\* sink on them whose threshold is at most S, whatever the handle's own level.
C3_WrittenIffAtLeastThreshold ==
    [][ last'.op = "emit" =>
          LET hs == loggerDict[last'.name].handlers
              line == Line(last'.name, last'.sev, last'.msg)
          IN /\ \A p \in DOMAIN files :
                  files'[p] = files[p]
                                \o Repeat(line, Admitting(hs, "file", p, last'.sev))
             /\ console' = console
                            \o Repeat(line, Admitting(hs, "stream", <<>>, last'.sev))
      ]_vars

C3_Witness ==
    /\ last.op = "emit" /\ last.sev = INFO
    /\ \E i, j \in 1..Len(loggerDict[last.name].handlers) :
          /\ loggerDict[last.name].handlers[i].level = INFO
          /\ loggerDict[last.name].handlers[j].level = DEBUG
    /\ TotalLines(files) + Len(console) >= 2

\* C4: a log file only grows: every step, a construction that reopens the
\* path included, keeps each file and its earlier lines in order.
C4_FileOnlyGrows ==
    [][ \A p \in DOMAIN files :
          p \in DOMAIN files' /\ IsPrefix(files[p], files'[p]) ]_vars

C4_Witness ==
    /\ IsCreate(last) /\ last.fh /\ last.outcome = "ok"
    /\ file_path(last.dir, last.base) \in DOMAIN files
    /\ files[file_path(last.dir, last.base)] # <<>>

\* the sink a construction with one sink attached: the last of the handle
LastHandler(dict, name) == dict[name].handlers[Len(dict[name].handlers)]

\* C5: a severity string that names no level in any letter case does not make
\* the construction fail and gives the sink the DEBUG threshold; a string that
\* names a level in any letter case gives that level.
C5_LevelStringLenient ==
    IsCreate(last) =>
        /\ last.outcome = "ok"
        /\ LastHandler(loggerDict, last.name).level
             = (IF \E kv \in levels : EqIgnoreCase(last.fl, kv[1])
                THEN (CHOOSE kv \in levels : EqIgnoreCase(last.fl, kv[1]))[2]
                ELSE DEBUG)

C5_Witness ==
    /\ IsCreate(last) /\ last.outcome = "ok"
    /\ Len(loggerDict[nA].handlers) = 2
    /\ last.fl = sVERBOSE
    /\ loggerDict[nA].handlers[2].level = DEBUG
    /\ loggerDict[nA].handlers[1].level = ERROR

AllAdmit(hs, sev) == \A i \in 1..Len(hs) : hs[i].level <= sev

NumOn(hs, kind, path) ==
    Cardinality({i \in 1..Len(hs) : hs[i].kind = kind /\ hs[i].path = path})

\* C6: constructions with one name accumulate sinks on the one handle: a
\* successful call adds as many sinks as it enabled after the earlier ones,
\* and a record every threshold admits is written once per accumulated sink.
C6_SinksAccumulate ==
    [][ /\ (IsCreate(last') /\ last'.outcome = "ok") =>
             LET old == HandlersOf(loggerDict, last'.name)
                 new == HandlersOf(loggerDict', last'.name)
             IN /\ Len(new) = Len(old) + Requested(last'.fh, last'.sh)
                /\ IsPrefix(old, new)
        /\ (last'.op = "emit"
              /\ AllAdmit(loggerDict[last'.name].handlers, last'.sev)) =>
             LET hs == loggerDict[last'.name].handlers IN
             /\ \A p \in DOMAIN files :
                  Len(files'[p]) = Len(files[p]) + NumOn(hs, "file", p)
             /\ Len(console') = Len(console) + NumOn(hs, "stream", <<>>)
      ]_vars

C6_Witness ==
    /\ last.op = "emit"
    /\ NumOn(loggerDict[last.name].handlers, "file", file_path(dLogs, bX)) = 2
    /\ AllAdmit(loggerDict[last.name].handlers, last.sev)
    /\ files[file_path(dLogs, bX)]
         = <<Line(last.name, last.sev, last.msg), Line(last.name, last.sev, last.msg)>>

\* C7: when the file sink is enabled and opening the log file fails with a
\* filesystem error, that error is the outcome of the construction.
C7_FilesystemErrorPropagates ==
    (IsCreate(last) /\ last.name # <<>> /\ last.fh
       /\ OpenOutcome(file_path(last.dir, last.base)) \in FsErrors) =>
        last.outcome = OpenOutcome(file_path(last.dir, last.base))

C7_Witness ==
    /\ IsCreate(last) /\ last.fh /\ last.sh
    /\ last.dir = dReadOnly
    /\ last.outcome = PermissionError

\* the path the contract names: {fileDirectory}/{fileBaseName}_logger.log
ContractPath(dir, base) == dir \o <<Sep>> \o base \o LogSuffix

JoinedPath(dir, base) ==
    IF base # <<>> /\ base[1] = Sep THEN base \o LogSuffix
    ELSE IF dir = <<>> THEN base \o LogSuffix
    ELSE IF dir[Len(dir)] = Sep THEN dir \o base \o LogSuffix
    ELSE ContractPath(dir, base)

C9_PreviewAtMostFiveRows ==
    last.op = "logTablePreview" =>
        /\ last.sev = DEBUG
        /\ Len(last.msg) = (IF last.n < 5 THEN last.n ELSE 5)
        /\ \A i \in 1..Len(last.msg) : last.msg[i] = Table(last.n)[i]

C9_Witness ==
    /\ last.op = "logTablePreview" /\ last.n = 20
    /\ Len(last.msg) = 5
    /\ console # <<>> /\ console[Len(console)].message = last.msg

\* C10: a failing construction attaches no sink: a rejected name leaves the
\* registry and every sink unchanged; a failed file sink with both sinks
\* enabled leaves the handle's sinks as before, the console sink not attached,
\* the handle registered with level DEBUG.
C10_FailedCallAttachesNothing ==
    [][ IsCreate(last') =>
          /\ last'.outcome = ConfigurationError =>
               (loggerDict' = loggerDict /\ files' = files /\ console' = console)
          /\ (last'.outcome \in FsErrors /\ last'.fh /\ last'.sh) =>
               /\ last'.name \in DOMAIN loggerDict'
               /\ loggerDict'[last'.name].level = DEBUG
               /\ loggerDict'[last'.name].handlers
                    = HandlersOf(loggerDict, last'.name)
               /\ \A k \in DOMAIN loggerDict \ {last'.name} :
                    k \in DOMAIN loggerDict' /\ loggerDict'[k] = loggerDict[k]
               /\ files' = files
      ]_vars

C10_Witness ==
    /\ IsCreate(last) /\ last.outcome \in FsErrors /\ last.fh /\ last.sh
    /\ last.name \in DOMAIN loggerDict
    /\ loggerDict[last.name].level = DEBUG
    /\ Len(loggerDict[last.name].handlers) = 1
    /\ \E k \in DOMAIN loggerDict : k # last.name /\ loggerDict[k].handlers # <<>>
====
